---- MODULE Spec2Model ----
(***************************************************************************)
(* Jobly data-access layer: the partial-update clause builder              *)
(* (helpers/sql.js) and the Company and Job models that run their queries  *)
(* against a relational store.                                             *)
(*                                                                         *)
(* A JavaScript object is a record [keys, val]: keys is the sequence of    *)
(* its own property names in iteration order, val maps each own property   *)
(* name to its value.  JavaScript values of the builder's inputs are       *)
(* written as the strings of their literals ("null", "0", "''", "'Miss'"). *)
(***************************************************************************)
EXTENDS Integers, Sequences, FiniteSets, TLC

VARIABLES
    dataToUpdate,   \* sql.js: first argument of sqlForPartialUpdate
    jsToSql,        \* sql.js: second argument of sqlForPartialUpdate
    result,         \* sql.js: what the call returned or threw
    companies,      \* the companies table: handle -> row
    jobs,           \* the jobs table: id -> row
    nextId,         \* the jobs.id sequence
    pc,             \* per caller: position inside Company.create
    pending,        \* per caller: the arguments of its Company.create
    last            \* the most recent call that finished, and its outcome

vars == <<dataToUpdate, jsToSql, result, companies, jobs, nextId, pc, pending, last>>

sqlVars == <<dataToUpdate, jsToSql, result>>
dbVars == <<companies, jobs, nextId, pc, pending, last>>

(***************************************************************************)
(* Bounds                                                                  *)
(***************************************************************************)
MaxKeys == 2        \* most keys in one update request
MaxJobs == 2        \* most jobs ever inserted

(***************************************************************************)
(* JavaScript objects                                                      *)
(***************************************************************************)
Range(s) == { s[i] : i \in 1..Len(s) }

\* the sequences of distinct elements of S of length 0..n: the orders in which
\* an object can hold up to n of the property names S
RECURSIVE KeySeqs(_, _)
KeySeqs(S, n) ==
    IF n = 0 THEN { <<>> }
    ELSE LET shorter == KeySeqs(S, n - 1)
         IN  shorter \cup
             UNION { { Append(s, k) : k \in S \ Range(s) } :
                     s \in { t \in shorter : Len(t) = n - 1 } }

Undefined == "<undefined>"

\* what `${f}` yields for the function found at Object.prototype.constructor
ObjectCtorText == "function Object() { [native code] }"

\* property names every plain object inherits from Object.prototype
ProtoKeys == { "constructor" }

ObjectKeys(obj) == obj.keys

ObjectValues(obj) == [ i \in 1..Len(obj.keys) |-> obj.val[obj.keys[i]] ]

\* obj[k] on a plain object whose own properties are the function props:
\* own property, else inherited, else undefined
GetProp(props, k) ==
    IF k \in DOMAIN props THEN props[k]
    ELSE IF k \in ProtoKeys THEN ObjectCtorText
    ELSE Undefined

\* the values `a || b` treats as false, among those a translation table holds
Falsy(v) == v = Undefined \/ v = ""

(***************************************************************************)
(* helpers/sql.js                                                          *)
(***************************************************************************)
\* ColumnFor with the translation table ignored
ColumnForUntranslated(table, colName) == colName

\* `"${jsToSql[colName] || colName}"` : the column of one fragment
ColumnFor(table, colName) ==
    IF Falsy(GetProp(table, colName)) THEN colName ELSE GetProp(table, colName)

\* Fragment with the placeholder numbered from 0, as idx is
FragmentFromZero(table, colName, idx) ==
    [ col |-> ColumnFor(table, colName), ph |-> idx ]

\* one element of cols, for the key at 0-based position idx
Fragment(table, colName, idx) ==
    [ col |-> ColumnFor(table, colName), ph |-> idx + 1 ]

\* the text of one fragment: "<col>"=$<ph>
FragmentText(f) == "\"" \o f.col \o "\"=$" \o ToString(f.ph)

RECURSIVE Join(_, _)
Join(texts, sep) ==
    IF Len(texts) = 0 THEN ""
    ELSE IF Len(texts) = 1 THEN texts[1]
    ELSE texts[1] \o sep \o Join(Tail(texts), sep)

SetColsText(cols) == Join([ i \in 1..Len(cols) |-> FragmentText(cols[i]) ], ", ")

\* sqlForPartialUpdate without the check of line 15
sqlForPartialUpdateUnchecked(data, table) ==
    LET keys == ObjectKeys(data)
        cols == [ i \in 1..Len(keys) |-> Fragment(table, keys[i], i - 1) ]
    IN  [ status |-> "ok",
          cols |-> cols,
          setCols |-> SetColsText(cols),
          values |-> ObjectValues(data) ]

sqlForPartialUpdate(data, table) ==
    LET keys == ObjectKeys(data)
        cols == [ i \in 1..Len(keys) |-> Fragment(table, keys[i], i - 1) ]
    IN  IF Len(keys) = 0
        THEN [ status |-> "BadRequestError", message |-> "No data" ]
        ELSE [ status |-> "ok",
               cols |-> cols,
               setCols |-> SetColsText(cols),
               values |-> ObjectValues(data) ]

(***************************************************************************)
(* The builder on its own: every request and translation table within the  *)
(* bounds, then the call.                                                  *)
(***************************************************************************)
SqlKeys == { "firstName", "lastName", "constructor" }
SqlValues == { "null", "0", "''", "'Miss'", "'Kitty'" }
SqlColumns == { "first_name", "last_name", "" }

Objects(K, V, n) ==
    UNION { { [ keys |-> ks, val |-> f ] : f \in [ Range(ks) -> V ] } : ks \in KeySeqs(K, n) }

\* translation tables: only their properties are read, never their order
Tables(K, V) == UNION { [ D -> V ] : D \in SUBSET K }

NoResult == [ status |-> "none" ]

NoCall == [ op |-> "none" ]

EmptyTable == [ k \in {} |-> {} ]

Callers == { "p1", "p2" }

\* the object {}
NoData == [ keys |-> <<>>, val |-> EmptyTable ]

SqlInit ==
    /\ dataToUpdate \in Objects(SqlKeys, SqlValues, MaxKeys)
    /\ jsToSql \in Tables(SqlKeys \ ProtoKeys, SqlColumns)
    /\ result = NoResult
    /\ companies = EmptyTable
    /\ jobs = EmptyTable
    /\ nextId = 1
    /\ pc = [ p \in Callers |-> "idle" ]
    /\ pending = [ p \in Callers |-> {} ]
    /\ last = NoCall

CallSqlForPartialUpdate ==
    /\ result = NoResult
    /\ result' = sqlForPartialUpdate(dataToUpdate, jsToSql)
    /\ UNCHANGED <<dataToUpdate, jsToSql>>
    /\ UNCHANGED dbVars

SqlNext == CallSqlForPartialUpdate

SpecSql == SqlInit /\ [][SqlNext]_vars

(***************************************************************************)
(* Properties of the builder                                               *)
(***************************************************************************)
Called == result # NoResult

NumKeys == Len(dataToUpdate.keys)

\* C1: for a request of N >= 1 keys k1..kN the builder returns N fragments
\* and N values; fragment i carries placeholder $i, translated or not, and
\* value i is the value the request holds for ki, and the clause text is the
\* fragments "<column>"=$i joined by ", ".
C1_FragmentsAndValuesAligned ==
    (Called /\ NumKeys >= 1) =>
        /\ result.status = "ok"
        /\ Len(result.cols) = NumKeys
        /\ Len(result.values) = NumKeys
        /\ \A i \in 1..NumKeys :
              /\ result.cols[i].ph = i
              /\ result.values[i] = dataToUpdate.val[dataToUpdate.keys[i]]
        /\ result.setCols =
              Join([ i \in 1..NumKeys |->
                       "\"" \o result.cols[i].col \o "\"=$" \o ToString(i) ], ", ")

\* a two-key request with one key translated and the other not
C1_Witness ==
    /\ Called /\ NumKeys = 2 /\ result.status = "ok"
    /\ dataToUpdate.keys = << "lastName", "firstName" >>
    /\ DOMAIN jsToSql = { "firstName" } /\ jsToSql["firstName"] = "first_name"
    /\ dataToUpdate.val["lastName"] = "'Kitty'"
    /\ dataToUpdate.val["firstName"] = "null"

\* the example of the test of sql.js
TestExample ==
    ( /\ Called
      /\ dataToUpdate = [ keys |-> << "firstName", "lastName" >>,
                          val |-> [ firstName |-> "'Miss'", lastName |-> "'Kitty'" ] ]
      /\ jsToSql = [ firstName |-> "first_name", lastName |-> "last_name" ] )
    => /\ result.setCols = "\"first_name\"=$1, \"last_name\"=$2"
       /\ result.values = << "'Miss'", "'Kitty'" >>

\* C2 as stated: a key present in the translation table gets the table's
\* entry as its column, whatever string that is; an absent key gets itself.
C2_AsStated ==
    (Called /\ NumKeys >= 1) =>
        \A i \in 1..NumKeys :
            LET K == dataToUpdate.keys[i]
            IN  result.cols[i].col = IF K \in DOMAIN jsToSql THEN jsToSql[K] ELSE K

\* C2, amended: the column of key K is the table's entry for K when that
\* entry is a non-empty string; it is K itself when the entry is the empty
\* string, and when K is absent from the table and names no property that
\* objects inherit; for an absent K that names an inherited property it is
\* the text of the inherited value.
C2_TranslatedUnlessFalsy ==
    (Called /\ NumKeys >= 1) =>
        \A i \in 1..NumKeys :
            LET K == dataToUpdate.keys[i]
                col == result.cols[i].col
            IN  /\ (K \in DOMAIN jsToSql /\ jsToSql[K] # "") => col = jsToSql[K]
                /\ (K \in DOMAIN jsToSql /\ jsToSql[K] = "") => col = K
                /\ (K \notin DOMAIN jsToSql /\ K \notin ProtoKeys) => col = K
                /\ (K \notin DOMAIN jsToSql /\ K \in ProtoKeys) => col = ObjectCtorText

\* a request with a key translated to a name and a key whose entry is ""
C2_Witness ==
    /\ Called /\ NumKeys = 2
    /\ dataToUpdate.keys = << "firstName", "lastName" >>
    /\ jsToSql = [ firstName |-> "first_name", lastName |-> "" ]
    /\ result.cols[1].col = "first_name"
    /\ result.cols[2].col = "lastName"

\* C3: the builder throws exactly when the request has no keys: then it is
\* BadRequestError and nothing is returned; any request with a key returns,
\* whatever its values (null, 0 and '' among them).
C3_ThrowsIffEmpty ==
    Called =>
        /\ (result.status = "BadRequestError") <=> (NumKeys = 0)
        /\ (result.status = "ok") <=> (NumKeys >= 1)
        /\ NumKeys = 0 => DOMAIN result = { "status", "message" }
        /\ NumKeys >= 1 => DOMAIN result = { "status", "cols", "setCols", "values" }

\* the empty request against a non-empty table, as in the test of sql.js
C3_Witness ==
    /\ Called /\ NumKeys = 0
    /\ jsToSql = [ firstName |-> "first_name" ]
    /\ result.status = "BadRequestError"

\* a request of nothing but null and '' that was accepted
C3_FalsyValuesReached ==
    /\ Called /\ NumKeys = 2
    /\ dataToUpdate.val["firstName"] = "null" /\ dataToUpdate.val["lastName"] = "''"
    /\ result.status = "ok"

(***************************************************************************)
(* The relational store, as the queries of the models use it.  A table is  *)
(* a function from the primary key to the row; a row maps column names to  *)
(* values.  db.query either returns rows or rejects with a database error. *)
(***************************************************************************)
Handles == { "c1", "c2" }
Names == { "N1", "N2" }
Descriptions == { "D1", "D2" }
NumEmployees == { "10", "20" }      \* as the driver sends them: text
LogoUrls == { "L1", "L2" }

CompanyColumns == { "handle", "name", "description", "num_employees", "logo_url" }

NoQuery == [ text |-> "none" ]

Max(S) == CHOOSE m \in S : \A x \in S : x <= m

\* UPDATE <tbl> SET <cols> WHERE <whereCol> = $<wherePh> RETURNING ..., bound to params
ExecUpdate(tbl, columns, cols, whereCol, wherePh, params) ==
    LET named == { cols[i].col : i \in 1..Len(cols) }
        needed == Max({ wherePh } \cup { cols[i].ph : i \in 1..Len(cols) })
        assigned(c) == CHOOSE i \in 1..Len(cols) : cols[i].col = c
        hit == { k \in DOMAIN tbl : tbl[k][whereCol] = params[wherePh] }
        set(row) == [ c \in DOMAIN row |->
                        IF c \in named THEN params[cols[assigned(c)].ph] ELSE row[c] ]
        after == [ k \in DOMAIN tbl |-> IF k \in hit THEN set(tbl[k]) ELSE tbl[k] ]
    IN  IF \/ ~ (named \subseteq columns)         \* column does not exist
           \/ Cardinality(named) # Len(cols)      \* multiple assignments to a column
           \/ needed # Len(params)                \* bind supplies the wrong number
        THEN [ status |-> "DbError", tbl |-> tbl, rows |-> {} ]
        ELSE [ status |-> "ok", tbl |-> after, rows |-> { after[k] : k \in hit } ]

\* DELETE FROM <tbl> WHERE <key> = $1 RETURNING <key>
ExecDelete(tbl, key) ==
    [ tbl |-> [ k \in DOMAIN tbl \ { key } |-> tbl[k] ],
      rows |-> { k \in DOMAIN tbl : k = key } ]

\* SELECT ... FROM companies WHERE handle = $1
SelectCompany(tbl, handle) == { tbl[k] : k \in { h \in DOMAIN tbl : h = handle } }

\* the columns the company queries return, under their aliases
CompanyOut(row) ==
    [ handle |-> row.handle, name |-> row.name, description |-> row.description,
      numEmployees |-> row.num_employees, logoUrl |-> row.logo_url ]

\* rows[0] of a result of at most one row
First(rows) == CHOOSE r \in rows : TRUE

\* the record of a finished call: what was asked, how it ended, what it
\* returned and, for an update, the statement it sent
Finished(op, key, data, status, value, query) ==
    [ op |-> op, key |-> key, data |-> data, status |-> status, value |-> value,
      query |-> query ]

(***************************************************************************)
(* models/company.js                                                       *)
(***************************************************************************)
\* what Company.create is called with: one new company per handle
NewCompanies ==
    [ handle : Handles, name : { "N1" }, description : { "D1" },
      numEmployees : { "10" }, logoUrl : { "L1" } ]

\* Company.create up to its first await: the duplicate check
CompanyCreateCheck(p, c) ==
    /\ pc[p] = "idle"
    /\ IF SelectCompany(companies, c.handle) # {}
       THEN /\ last' = Finished("Company.create", c.handle, NoData, "BadRequestError",
                                 {}, NoQuery)
            /\ UNCHANGED <<pc, pending>>
       ELSE /\ pc' = [ pc EXCEPT ![p] = "insert" ]
            /\ pending' = [ pending EXCEPT ![p] = c ]
            /\ UNCHANGED last
    /\ UNCHANGED <<companies, jobs, nextId>>
    /\ UNCHANGED sqlVars

\* Company.create after the check: the INSERT (handle is the primary key)
CompanyCreateInsert(p) ==
    /\ pc[p] = "insert"
    /\ LET c == pending[p]
           row == [ handle |-> c.handle, name |-> c.name, description |-> c.description,
                    num_employees |-> c.numEmployees, logo_url |-> c.logoUrl ]
       IN  IF c.handle \in DOMAIN companies
           THEN /\ last' = Finished("Company.create", c.handle, NoData, "DbError",
                                     {}, NoQuery)
                /\ UNCHANGED companies
           ELSE /\ companies' = [ h \in DOMAIN companies \cup { c.handle } |->
                                    IF h = c.handle THEN row ELSE companies[h] ]
                /\ last' = Finished("Company.create", c.handle, NoData, "ok",
                                     CompanyOut(row), NoQuery)
    /\ pc' = [ pc EXCEPT ![p] = "idle" ]
    /\ pending' = [ pending EXCEPT ![p] = {} ]
    /\ UNCHANGED <<jobs, nextId>>
    /\ UNCHANGED sqlVars

CompanyGet(handle) ==
    /\ LET rows == SelectCompany(companies, handle)
       IN  IF rows = {}
           THEN last' = Finished("Company.get", handle, NoData, "NotFoundError",
                                 {}, NoQuery)
           ELSE last' = Finished("Company.get", handle, NoData, "ok",
                                 CompanyOut(First(rows)), NoQuery)
    /\ UNCHANGED <<companies, jobs, nextId, pc, pending>>
    /\ UNCHANGED sqlVars

CompanyJsToSql ==
    [ k \in { "numEmployees", "logoUrl" } |->
        IF k = "numEmployees" THEN "num_employees" ELSE "logo_url" ]

\* HandleVarIdx without the + 1
HandleVarIdxNoOffset(values) == Len(values)

\* '$' + (values.length + 1)
HandleVarIdx(values) == Len(values) + 1

\* the UPDATE statement Company.update sends, from what the builder returned
CompanyUpdateQuery(built, handle) ==
    [ text |-> "UPDATE companies",
      setCols |-> built.setCols,
      cols |-> built.cols,
      wherePh |-> HandleVarIdx(built.values),
      params |-> built.values \o << handle >> ]

CompanyUpdate(handle, data) ==
    /\ \E built \in { sqlForPartialUpdate(data, CompanyJsToSql) } :
         IF built.status # "ok"
         THEN /\ last' = Finished("Company.update", handle, data, built.status,
                                   {}, NoQuery)
              /\ UNCHANGED companies
         ELSE \E query \in { CompanyUpdateQuery(built, handle) } :
              \E done \in { ExecUpdate(companies, CompanyColumns, query.cols, "handle",
                                        query.wherePh, query.params) } :
                /\ companies' = done.tbl
                /\ last' = Finished("Company.update", handle, data,
                                    IF done.status # "ok" THEN done.status
                                    ELSE IF done.rows = {} THEN "NotFoundError"
                                    ELSE "ok",
                                    IF done.status = "ok" /\ done.rows # {}
                                    THEN CompanyOut(First(done.rows)) ELSE {},
                                    query)
    /\ UNCHANGED <<jobs, nextId, pc, pending>>
    /\ UNCHANGED sqlVars

CompanyRemove(handle) ==
    /\ LET done == ExecDelete(companies, handle)
       IN  /\ companies' = done.tbl
           /\ last' = Finished("Company.remove", handle, NoData,
                               IF done.rows = {} THEN "NotFoundError" ELSE "ok",
                               {}, NoQuery)
    /\ UNCHANGED <<jobs, nextId, pc, pending>>
    /\ UNCHANGED sqlVars

CompanyKeys == { "name", "description", "numEmployees", "logoUrl" }

\* the request holding the keys ks, in that order, with these values
CompanyRequest(ks, n, d, e, l) ==
    [ keys |-> ks,
      val |-> [ k \in Range(ks) |->
                  CASE k = "name" -> n
                    [] k = "description" -> d
                    [] k = "numEmployees" -> e
                    [] k = "logoUrl" -> l ] ]

\* the update requests: every order of up to MaxKeys keys, carrying the
\* values a created company does not have
CompanyData ==
    { CompanyRequest(ks, "N2", "D2", "20", "L2") : ks \in KeySeqs(CompanyKeys, MaxKeys) }

CompanyInit ==
    /\ companies = EmptyTable
    /\ jobs = EmptyTable
    /\ nextId = 1
    /\ pc = [ p \in Callers |-> "idle" ]
    /\ pending = [ p \in Callers |-> {} ]
    /\ last = NoCall
    /\ dataToUpdate = NoData
    /\ jsToSql = EmptyTable
    /\ result = NoResult

\* calls made one after another by one caller
CompanySerialNext ==
    \/ \E c \in NewCompanies : CompanyCreateCheck("p1", c)
    \/ CompanyCreateInsert("p1")
    \/ \E h \in Handles : CompanyGet(h)
    \/ \E h \in Handles, d \in CompanyData : CompanyUpdate(h, d)
    \/ \E h \in Handles : CompanyRemove(h)

\* calls of several callers, interleaved at every await
CompanyConcurrentNext ==
    \/ \E p \in Callers, c \in NewCompanies : CompanyCreateCheck(p, c)
    \/ \E p \in Callers : CompanyCreateInsert(p)
    \/ \E h \in Handles : CompanyGet(h)
    \/ \E h \in Handles, d \in CompanyData : CompanyUpdate(h, d)
    \/ \E h \in Handles : CompanyRemove(h)

SpecCompany == CompanyInit /\ [][CompanySerialNext]_vars

SpecCompanyConcurrent == CompanyInit /\ [][CompanyConcurrentNext]_vars

(***************************************************************************)
(* models/job.js                                                           *)
(*                                                                         *)
(* A title is the sequence of its characters, so that ILIKE and ORDER BY   *)
(* can be computed; equity is counted in tenths.                           *)
(***************************************************************************)
Titles == { << "D", "b" >>, << "a", "d" >> }
Salaries == { 100, 200 }
Equities == { 0, 5 }

JobColumns == { "id", "title", "salary", "equity", "company_handle" }

JobIds == 1..MaxJobs

\* the columns the job queries return, under their aliases
JobOut(row) ==
    [ id |-> row.id, title |-> row.title, salary |-> row.salary, equity |-> row.equity,
      companyHandle |-> row.company_handle ]

\* what Job.create is called with
NewJobs == [ title : Titles, salary : Salaries, equity : Equities, companyHandle : Handles ]

\* INSERT INTO jobs ... RETURNING ...: the id comes from the table's sequence
JobCreate(data) ==
    /\ nextId <= MaxJobs
    /\ LET row == [ id |-> nextId, title |-> data.title, salary |-> data.salary,
                    equity |-> data.equity, company_handle |-> data.companyHandle ]
       IN  /\ jobs' = [ i \in DOMAIN jobs \cup { nextId } |->
                          IF i = nextId THEN row ELSE jobs[i] ]
           /\ last' = Finished("Job.create", nextId, NoData, "ok", JobOut(row), NoQuery)
    /\ nextId' = nextId + 1
    /\ UNCHANGED <<companies, pc, pending>>
    /\ UNCHANGED sqlVars

\* lines 43-60: the WHERE clauses and their bound values, for the filters given
FindAllWhere(filters) ==
    LET f == filters.val
        hasMin == "minSalary" \in DOMAIN f
        hasEq == "hasEquity" \in DOMAIN f /\ f["hasEquity"] = TRUE
        hasTitle == "title" \in DOMAIN f
        vals1 == IF hasMin THEN << f["minSalary"] >> ELSE << >>
        w1 == IF hasMin THEN << [ col |-> "salary", op |-> ">=", ph |-> Len(vals1) ] >>
              ELSE << >>
        w2 == IF hasEq THEN Append(w1, [ col |-> "equity", op |-> "> 0", ph |-> 0 ])
              ELSE w1
        vals2 == IF hasTitle THEN Append(vals1, [ contains |-> f["title"] ]) ELSE vals1
        w3 == IF hasTitle
              THEN Append(w2, [ col |-> "title", op |-> "ILIKE", ph |-> Len(vals2) ])
              ELSE w2
    IN  [ whereClauses |-> w3, queryVals |-> vals2 ]

Lower(c) ==
    CASE c = "A" -> "a" [] c = "B" -> "b" [] c = "D" -> "d" [] OTHER -> c

LowerAll(t) == [ i \in 1..Len(t) |-> Lower(t[i]) ]

\* t ILIKE '%text%'
ILike(t, text) ==
    \E i \in 1..(Len(t) - Len(text) + 1) :
        LowerAll(SubSeq(t, i, i + Len(text) - 1)) = LowerAll(text)

CharCode(c) ==
    CASE c = "A" -> 65 [] c = "B" -> 66 [] c = "D" -> 68
      [] c = "a" -> 97 [] c = "b" -> 98 [] c = "d" -> 100

\* a <= b in the order ORDER BY title sorts by
RECURSIVE TitleLeq(_, _)
TitleLeq(a, b) ==
    IF Len(a) = 0 THEN TRUE
    ELSE IF Len(b) = 0 THEN FALSE
    ELSE IF CharCode(a[1]) # CharCode(b[1]) THEN CharCode(a[1]) < CharCode(b[1])
    ELSE TitleLeq(Tail(a), Tail(b))

\* whether a row passes one WHERE clause
Passes(row, clause, queryVals) ==
    CASE clause.op = ">=" -> row[clause.col] >= queryVals[clause.ph]
      [] clause.op = "> 0" -> row[clause.col] > 0
      [] clause.op = "ILIKE" -> ILike(row[clause.col], queryVals[clause.ph].contains)

SqlNull == "<null>"

\* the row of jobs j LEFT JOIN companies c that findAll selects
JobWithCompanyName(row, companyTbl) ==
    [ id |-> row.id, title |-> row.title, salary |-> row.salary, equity |-> row.equity,
      companyHandle |-> row.company_handle,
      companyName |-> IF row.company_handle \in DOMAIN companyTbl
                      THEN companyTbl[row.company_handle].name ELSE SqlNull ]

\* SELECT ... FROM jobs j LEFT JOIN companies c ... WHERE <clauses>, unordered
SelectJobs(jobTbl, companyTbl, whereClauses, queryVals) ==
    { JobWithCompanyName(jobTbl[i], companyTbl) :
        i \in { k \in DOMAIN jobTbl :
                  \A n \in 1..Len(whereClauses) :
                      Passes(jobTbl[k], whereClauses[n], queryVals) } }

\* the orders ORDER BY title may return rows in
OrderedByTitle(rows) ==
    { s \in KeySeqs(rows, Cardinality(rows)) :
        /\ Len(s) = Cardinality(rows)
        /\ \A i \in 1..(Len(s) - 1) : TitleLeq(s[i].title, s[i + 1].title) }

\* line 39 declares query with const; lines 63 and 66 assign to it
QueryIsConst == TRUE

JobFindAll(filters) ==
    /\ \E built \in { FindAllWhere(filters) } :
         IF QueryIsConst
         THEN last' = Finished("Job.findAll", filters, NoData, "TypeError", {}, NoQuery)
         ELSE \E rows \in OrderedByTitle(SelectJobs(jobs, companies, built.whereClauses,
                                                    built.queryVals)) :
                last' = Finished("Job.findAll", filters, NoData, "ok", rows,
                                 [ text |-> "SELECT jobs",
                                   whereClauses |-> built.whereClauses,
                                   queryVals |-> built.queryVals ])
    /\ UNCHANGED <<companies, jobs, nextId, pc, pending>>
    /\ UNCHANGED sqlVars

\* the column the first query of Job.get compares with $1 (line 83)
JobGetWhereColumn == "if"

\* SELECT ... FROM jobs WHERE <col> = $1
SelectJobsWhere(tbl, col, v) ==
    IF col \notin JobColumns
    THEN [ status |-> "DbError", rows |-> {} ]
    ELSE [ status |-> "ok", rows |-> { tbl[i] : i \in { k \in DOMAIN tbl : tbl[k][col] = v } } ]

\* Job.get: the query for the job, then the query for its company.  No call
\* gets past the first query, so the two are one step here.
JobGet(id) ==
    /\ \E found \in { SelectJobsWhere(jobs, JobGetWhereColumn, id) } :
         last' =
            IF found.status # "ok"
            THEN Finished("Job.get", id, NoData, found.status, {}, NoQuery)
            ELSE IF found.rows = {}
            THEN Finished("Job.get", id, NoData, "NotFoundError", {}, NoQuery)
            ELSE LET job == JobOut(First(found.rows))
                     company == SelectCompany(companies, job.companyHandle)
                 IN  Finished("Job.get", id, NoData, "ok",
                              [ id |-> job.id, title |-> job.title, salary |-> job.salary,
                                equity |-> job.equity, companyHandle |-> job.companyHandle,
                                company |-> IF company = {} THEN Undefined
                                            ELSE CompanyOut(First(company)) ],
                              NoQuery)
    /\ UNCHANGED <<companies, jobs, nextId, pc, pending>>
    /\ UNCHANGED sqlVars

\* the properties of the object sqlForPartialUpdate returns
BuiltProps == { "setCols", "values" }

\* the property Job.update reads the values from: const { setCols, vals } = ...
JobUpdateValsProp == "vals"

JobUpdate(id, data) ==
    /\ \E built \in { sqlForPartialUpdate(data, EmptyTable) } :
         IF built.status # "ok"
         THEN /\ last' = Finished("Job.update", id, data, built.status, {}, NoQuery)
              /\ UNCHANGED jobs
         ELSE IF JobUpdateValsProp \notin BuiltProps
         THEN \* vals is undefined, and vals.length throws
              /\ last' = Finished("Job.update", id, data, "TypeError", {}, NoQuery)
              /\ UNCHANGED jobs
         ELSE \E vals \in { built[JobUpdateValsProp] } :
              \E query \in { [ text |-> "UPDATE jobs", setCols |-> built.setCols,
                                cols |-> built.cols, wherePh |-> Len(vals) + 1,
                                params |-> vals \o << id >> ] } :
              \E done \in { ExecUpdate(jobs, JobColumns, query.cols, "id",
                                        query.wherePh, query.params) } :
                /\ jobs' = done.tbl
                /\ last' = Finished("Job.update", id, data,
                                    IF done.status # "ok" THEN done.status
                                    ELSE IF done.rows = {} THEN "NotFoundError"
                                    ELSE "ok",
                                    IF done.status = "ok" /\ done.rows # {}
                                    THEN JobOut(First(done.rows)) ELSE {},
                                    query)
    /\ UNCHANGED <<companies, nextId, pc, pending>>
    /\ UNCHANGED sqlVars

JobRemove(id) ==
    /\ LET done == ExecDelete(jobs, id)
       IN  /\ jobs' = done.tbl
           /\ last' = Finished("Job.remove", id, NoData,
                               IF done.rows = {} THEN "NotFoundError" ELSE "ok",
                               {}, NoQuery)
    /\ UNCHANGED <<companies, nextId, pc, pending>>
    /\ UNCHANGED sqlVars

JobKeys == { "title", "salary", "equity" }

\* the request holding the keys ks, in that order, with these values
JobRequest(ks, t, s, e) ==
    [ keys |-> ks,
      val |-> [ k \in Range(ks) |->
                  CASE k = "title" -> t [] k = "salary" -> s [] k = "equity" -> e ] ]

\* the update requests: every order of up to MaxKeys keys, carrying values
\* no created job has
JobData == { JobRequest(ks, << "B", "a" >>, 300, 9) : ks \in KeySeqs(JobKeys, MaxKeys) }

\* the filters findAll is called with: each of the three given or not
JobFilters ==
    { [ keys |-> << >>, val |-> f ] :
        f \in UNION { { [ k \in D |-> CASE k = "minSalary" -> 200
                                         [] k = "hasEquity" -> b
                                         [] k = "title" -> << "d" >> ] : b \in BOOLEAN } :
                      D \in SUBSET { "minSalary", "hasEquity", "title" } } }

\* the row Company.create has inserted for a handle
CreatedCompany(h) ==
    [ handle |-> h, name |-> "N1", description |-> "D1", num_employees |-> "10",
      logo_url |-> "L1" ]

\* the store once every company was created, and no job yet
JobInit ==
    /\ companies = [ h \in Handles |-> CreatedCompany(h) ]
    /\ jobs = EmptyTable
    /\ nextId = 1
    /\ pc = [ p \in Callers |-> "idle" ]
    /\ pending = [ p \in Callers |-> {} ]
    /\ last = NoCall
    /\ dataToUpdate = NoData
    /\ jsToSql = EmptyTable
    /\ result = NoResult

JobNext ==
    \/ \E d \in NewJobs : JobCreate(d)
    \/ \E f \in JobFilters : JobFindAll(f)
    \/ \E i \in JobIds : JobGet(i)
    \/ \E i \in JobIds, d \in JobData : JobUpdate(i, d)
    \/ \E i \in JobIds : JobRemove(i)
    \/ \E h \in Handles : CompanyGet(h)

SpecJob == JobInit /\ [][JobNext]_vars

(***************************************************************************)
(* Properties of the Company model                                         *)
(***************************************************************************)
\* C6: a Company.create call ends either with the company inserted or with
\* BadRequestError, under every interleaving of the callers' steps; no call
\* ends in another error.
C6_CreateEndsOkOrBadRequest ==
    last.op = "Company.create" => last.status \in { "ok", "BadRequestError" }

\* the column a key of a company update request is stored in
CompanyColumnOf(k) ==
    CASE k = "numEmployees" -> "num_employees"
      [] k = "logoUrl" -> "logo_url"
      [] OTHER -> k

\* the row with the keys of data set to the values of data
CompanyRowAfter(row, data) ==
    [ c \in DOMAIN row |->
        IF \E k \in Range(data.keys) : CompanyColumnOf(k) = c
        THEN data.val[CHOOSE k \in Range(data.keys) : CompanyColumnOf(k) = c]
        ELSE row[c] ]

\* a step that finishes a call
Finishes(op) == last' # last /\ last'.op = op

\* C7: Company.update with a request of N >= 1 keys sends SET fragments
\* "<column of ki>"=$i (numEmployees and logoUrl under their column names),
\* WHERE handle = $(N+1), and the N values followed by the handle; on an
\* existing handle only the fields named in the request change, in that row
\* alone, and the row is returned; on a missing handle it throws
\* NotFoundError and the table is unchanged.
C7_UpdateStatementAndFrame ==
    [][ (Finishes("Company.update") /\ Len(last'.data.keys) >= 1) =>
          LET call == last'
              keys == call.data.keys
              N == Len(keys)
          IN  /\ call.query.cols = [ i \in 1..N |->
                                       [ col |-> CompanyColumnOf(keys[i]), ph |-> i ] ]
              /\ call.query.setCols =
                    Join([ i \in 1..N |->
                             "\"" \o CompanyColumnOf(keys[i]) \o "\"=$" \o ToString(i) ], ", ")
              /\ call.query.wherePh = N + 1
              /\ call.query.params =
                    [ i \in 1..(N + 1) |-> IF i <= N THEN call.data.val[keys[i]]
                                           ELSE call.key ]
              /\ IF call.key \in DOMAIN companies
                 THEN /\ call.status = "ok"
                      /\ DOMAIN companies' = DOMAIN companies
                      /\ \A h \in DOMAIN companies \ { call.key } :
                            companies'[h] = companies[h]
                      /\ companies'[call.key] =
                            CompanyRowAfter(companies[call.key], call.data)
                      /\ call.value = CompanyOut(companies'[call.key])
                 ELSE /\ call.status = "NotFoundError"
                      /\ companies' = companies
      ]_vars

\* an update of two keys, one of them translated, while another company is
\* in the table
C7_Witness ==
    /\ last.op = "Company.update" /\ last.status = "ok"
    /\ last.data.keys = << "numEmployees", "name" >>
    /\ last.query.wherePh = 3
    /\ DOMAIN companies = Handles
    /\ companies[last.key].num_employees = "20"
    /\ companies[last.key].logo_url = "L1"

\* an update of a handle that is not in the table
C7_MissingReached ==
    /\ last.op = "Company.update" /\ last.status = "NotFoundError"
    /\ Len(last.data.keys) = 2
    /\ companies # EmptyTable

\* Company.remove deletes the row of a handle in the table and no other, and
\* throws NotFoundError on a handle not in it, leaving the table as it was;
\* Company.get of a handle not in the table throws NotFoundError.
CompanyRemoveContract ==
    [][ /\ Finishes("Company.remove") =>
              IF last'.key \in DOMAIN companies
              THEN /\ last'.status = "ok"
                   /\ companies' = [ h \in DOMAIN companies \ { last'.key } |-> companies[h] ]
              ELSE /\ last'.status = "NotFoundError"
                   /\ companies' = companies
        /\ (Finishes("Company.get") /\ last'.key \notin DOMAIN companies') =>
              last'.status = "NotFoundError"
      ]_vars

(***************************************************************************)
(* Properties of the Job model                                             *)
(***************************************************************************)
\* the row with the keys of data set to the values of data
JobRowAfter(row, data) ==
    [ c \in DOMAIN row |-> IF c \in Range(data.keys) THEN data.val[c] ELSE row[c] ]

\* C4: Job.update with a request of one or more of title, salary, equity
\* sets exactly those fields of the job with that id and returns the updated
\* job; when no job has that id it throws NotFoundError; nothing else happens.
C4_JobUpdateContract ==
    [][ (Finishes("Job.update") /\ Len(last'.data.keys) >= 1) =>
          IF last'.key \in DOMAIN jobs
          THEN /\ last'.status = "ok"
               /\ jobs' = [ jobs EXCEPT ![last'.key] = JobRowAfter(jobs[last'.key], last'.data) ]
               /\ last'.value = JobOut(jobs'[last'.key])
          ELSE /\ last'.status = "NotFoundError"
               /\ jobs' = jobs
      ]_vars

\* C5: Job.get returns the row of the job with the id given, with its
\* company attached, and throws NotFoundError for an id no job has.
C5_GetById ==
    last.op = "Job.get" =>
        IF last.key \in DOMAIN jobs
        THEN /\ last.status = "ok"
             /\ last.value =
                   [ id |-> last.key,
                     title |-> jobs[last.key].title,
                     salary |-> jobs[last.key].salary,
                     equity |-> jobs[last.key].equity,
                     companyHandle |-> jobs[last.key].company_handle,
                     company |-> CompanyOut(companies[jobs[last.key].company_handle]) ]
        ELSE last.status = "NotFoundError"

\* C8: Company.get of a handle in the table returns the company with jobs,
\* the jobs of that company; of a handle not in it, it throws NotFoundError.
C8_GetListsJobs ==
    last.op = "Company.get" =>
        IF last.key \in DOMAIN companies
        THEN /\ last.status = "ok"
             /\ DOMAIN last.value =
                   { "handle", "name", "description", "numEmployees", "logoUrl", "jobs" }
             /\ Len(last.value.jobs) =
                   Cardinality({ i \in DOMAIN jobs : jobs[i].company_handle = last.key })
             /\ Range(last.value.jobs) =
                   { JobOut(jobs[i]) :
                       i \in { k \in DOMAIN jobs : jobs[k].company_handle = last.key } }
        ELSE last.status = "NotFoundError"

\* whether a job passes the filters given to findAll
Wanted(row, filters) ==
    LET f == filters.val
    IN  /\ "minSalary" \in DOMAIN f => row.salary >= f["minSalary"]
        /\ ("hasEquity" \in DOMAIN f /\ f["hasEquity"] = TRUE) => row.equity > 0
        /\ "title" \in DOMAIN f => ILike(row.title, f["title"])

\* C9: Job.findAll returns, ordered by title, exactly the jobs that pass
\* every filter given (all jobs when none is); each numbered placeholder of
\* the WHERE clause is the position of its value; the call ends without error.
C9_FindAllFilters ==
    last.op = "Job.findAll" =>
        /\ last.status = "ok"
        /\ Range(last.value) =
              { JobWithCompanyName(jobs[i], companies) :
                  i \in { k \in DOMAIN jobs : Wanted(jobs[k], last.key) } }
        /\ Len(last.value) = Cardinality({ k \in DOMAIN jobs : Wanted(jobs[k], last.key) })
        /\ \A i \in 1..(Len(last.value) - 1) :
              TitleLeq(last.value[i].title, last.value[i + 1].title)
        /\ \A n \in 1..Len(last.query.whereClauses) :
              LET clause == last.query.whereClauses[n]
              IN  /\ clause.op = ">=" =>
                        last.query.queryVals[clause.ph] = last.key.val["minSalary"]
                  /\ clause.op = "ILIKE" =>
                        last.query.queryVals[clause.ph].contains = last.key.val["title"]

\* C10: remove of a key in the store deletes that row and no other; remove of
\* a key not in the store (a second remove among them) throws NotFoundError
\* and changes nothing; get of a removed key throws NotFoundError.  For both
\* Company and Job.
C10_RemoveContract ==
    [][ /\ Finishes("Job.remove") =>
              IF last'.key \in DOMAIN jobs
              THEN /\ last'.status = "ok"
                   /\ jobs' = [ i \in DOMAIN jobs \ { last'.key } |-> jobs[i] ]
              ELSE /\ last'.status = "NotFoundError"
                   /\ jobs' = jobs
        /\ (Finishes("Job.get") /\ last'.key < nextId /\ last'.key \notin DOMAIN jobs) =>
              last'.status = "NotFoundError"
        /\ Finishes("Company.remove") =>
              IF last'.key \in DOMAIN companies
              THEN /\ last'.status = "ok"
                   /\ companies' = [ h \in DOMAIN companies \ { last'.key } |-> companies[h] ]
              ELSE /\ last'.status = "NotFoundError"
                   /\ companies' = companies
        /\ (Finishes("Company.get") /\ last'.key \notin DOMAIN companies) =>
              last'.status = "NotFoundError"
      ]_vars

====
